---- MODULE Spec2Model ----
(***************************************************************************)
(* Model of the Ghostfolio Home Assistant integration:                     *)
(*   custom_components/ghostfolio/__init__.py                              *)
(*     GhostfolioDataUpdateCoordinator._async_update_data   (refresh)      *)
(*     GhostfolioDataUpdateCoordinator.async_prune_orphans  (prune)        *)
(*   custom_components/ghostfolio/binary_sensor.py, button.py              *)
(*                                                                         *)
(* A refresh cycle is a coroutine: every `await` of a remote call is a     *)
(* suspension point and therefore one action of the model.  The remote     *)
(* call's outcome (its response, or an exception) is the action's input.   *)
(* async_prune_orphans holds no await and is one atomic action.            *)
(*                                                                         *)
(* Text is modelled as a sequence of tokens: a token is either a maximal   *)
(* alphanumeric word ("holding", "AAPL") or one separator character        *)
(* ("_", ".", " ").  Concatenation of text is concatenation of sequences.  *)
(* A Python dict is a function from its keys to its values; a key that is  *)
(* missing or whose value is null is absent from the DOMAIN.               *)
(***************************************************************************)
EXTENDS Integers, Sequences, FiniteSets, TLC

VARIABLES
    cfg,                  \* self.entry.data: the four display flags
    data,                 \* self.data: the cached Snapshot (NoData before the first refresh)
    registry,             \* the host's entity registry: a set of entity entries
    prune_report,         \* what the last prune logged: outcome and removed_count
    prior_report,         \* what the prune before the last one logged
    pc,                   \* position of _async_update_data
    accounts_data,        \* local of _async_update_data
    global_performance,   \* local of _async_update_data
    account_performances, \* local of _async_update_data
    holdings_by_account,  \* local of _async_update_data
    raw_items,            \* local of _async_update_data
    watchlist_items,      \* local of _async_update_data
    market_data_resp,     \* local of _async_update_data: the last market-data response
    idx,                  \* position of the running for loop (accounts_list, then raw_items)
    health_tasks,         \* the tasks asyncio.gather runs: code -> state of the call
    calls                 \* log of the remote calls of the current cycle and their outcomes

vars == <<cfg, data, registry, prune_report, prior_report, pc, accounts_data,
          global_performance,
          account_performances, holdings_by_account, raw_items, watchlist_items,
          market_data_resp, idx, health_tasks, calls>>

locals == <<accounts_data, global_performance, account_performances,
            holdings_by_account, raw_items, watchlist_items, market_data_resp, idx>>

(***************************************************************************)
(* Bounds of the model.                                                    *)
(***************************************************************************)
MaxAccounts == 2
MaxWatch == 3

(***************************************************************************)
(* Dict helpers.                                                           *)
(***************************************************************************)
EmptyDict == <<>>

Has(d, k) == k \in DOMAIN d

Put(d, k, v) == [x \in (DOMAIN d) \cup {k} |-> IF x = k THEN v ELSE d[x]]

Range(s) == {s[i] : i \in DOMAIN s}

(***************************************************************************)
(* Text: token sequences.                                                  *)
(***************************************************************************)
Separators == {"_", ".", " ", "-"}

\* str.lower() on one token
LowerToken(w) ==
    CASE w = "YAHOO" -> "yahoo"
      [] w = "COINGECKO" -> "coingecko"
      [] w = "AAPL" -> "aapl"
      [] w = "MSFT" -> "msft"
      [] w = "BTC" -> "btc"
      [] w = "USD" -> "usd"
      [] w = "Limit" -> "limit"
      [] w = "Low" -> "low"
      [] OTHER -> w

\* str.lower()
Lower(text) == [i \in DOMAIN text |-> LowerToken(text[i])]

RECURSIVE WordsOf(_)
\* the lower-cased alphanumeric words of a text, in order
WordsOf(text) ==
    IF text = <<>> THEN <<>>
    ELSE IF Head(text) \in Separators THEN WordsOf(Tail(text))
    ELSE <<LowerToken(Head(text))>> \o WordsOf(Tail(text))

RECURSIVE JoinWords(_)
\* "_".join(words)
JoinWords(words) ==
    IF words = <<>> THEN <<>>
    ELSE IF Len(words) = 1 THEN words
    ELSE <<Head(words), "_">> \o JoinWords(Tail(words))

\* homeassistant.util.slugify(text): "" for None or "", else the lower-cased
\* words joined by "_", or "unknown" when no word is left
slugify(text) ==
    IF text = <<>> THEN <<>>
    ELSE IF WordsOf(text) = <<>> THEN <<"unknown">>
    ELSE JoinWords(WordsOf(text))

(***************************************************************************)
(* Entity identifiers (unique_id), as the f-strings build them.            *)
(***************************************************************************)
\* f"ghostfolio_{kind}_{entry_id}"
InstanceId(kind, entry_id) == <<"ghostfolio", "_">> \o kind \o <<"_">> \o entry_id

\* f"ghostfolio_{kind}_{part}_{entry_id}"
PartId(kind, part, entry_id) ==
    <<"ghostfolio", "_">> \o kind \o <<"_">> \o part \o <<"_">> \o entry_id

\* f"ghostfolio_{kind}_{account_id}_{safe_symbol}_{entry_id}"
HoldingId(kind, account_id, safe_symbol, entry_id) ==
    <<"ghostfolio", "_">> \o kind \o <<"_">> \o account_id \o <<"_">>
        \o safe_symbol \o <<"_">> \o entry_id

GlobalKinds ==
    { <<"current", "_", "value">>,
      <<"net", "_", "performance">>,
      <<"net", "_", "performance", "_", "percent">>,
      <<"total", "_", "investment">>,
      <<"net", "_", "performance", "_", "percent", "_", "with", "_", "currency">>,
      <<"net", "_", "performance", "_", "with", "_", "currency">>,
      <<"simple", "_", "gain", "_", "percent">> }

AccountKinds ==
    { <<"account", "_", "value">>,
      <<"account", "_", "cost">>,
      <<"account", "_", "perf">>,
      <<"account", "_", "perf", "_", "pct">>,
      <<"account", "_", "simple", "_", "gain">> }

HoldingKinds ==
    { <<"holding">>, <<"limit", "_", "low">>, <<"limit", "_", "high">> }

WatchlistKinds ==
    { <<"watchlist">>,
      <<"watchlist", "_", "limit", "_", "low">>,
      <<"watchlist", "_", "limit", "_", "high">> }

\* const.DATA_PROVIDERS: the configured provider codes
DATA_PROVIDERS == << <<"YAHOO">>, <<"COINGECKO">> >>

ProviderCodes == Range(DATA_PROVIDERS)

\* GhostfolioServerSensor._attr_unique_id
ServerSensorId(entry_id) == InstanceId(<<"server", "_", "status">>, entry_id)

\* GhostfolioProviderSensor._attr_unique_id
ProviderSensorId(provider_code, entry_id) ==
    PartId(<<"provider">>, Lower(provider_code), entry_id)

\* GhostfolioPruneButton._attr_unique_id
PruneButtonId(entry_id) == InstanceId(<<"prune", "_", "button">>, entry_id)

(***************************************************************************)
(* Watchlist enrichment (lines 146-182 of __init__.py).                    *)
(***************************************************************************)
max_lookback == 5

Abs(n) == IF n < 0 THEN -n ELSE n

RECURSIVE GCD(_, _)
GCD(a, b) == IF b = 0 THEN a ELSE GCD(b, a % b)

\* history[k] with Python's index k: 0-based from the front, negative from the back
PyIndex(history, k) == IF k < 0 THEN history[Len(history) + k + 1] ELSE history[k + 1]

\* float(entry.get("marketPrice") or 0)
PriceOf(entry) == IF Has(entry, "marketPrice") THEN entry["marketPrice"] ELSE 0

\* (change_val / prev_price) * 100, kept exact as a reduced fraction
Percentage(change_val, prev_price) ==
    LET g == GCD(Abs(change_val * 100), prev_price)
    IN  [num |-> (change_val * 100) \div g, den |-> prev_price \div g]

\* d[k] = src.get(sk): a None value is an absent key
Assign(d, k, src, sk) ==
    IF Has(src, sk) THEN Put(d, k, src[sk])
    ELSE [x \in (DOMAIN d) \ {k} |-> d[x]]

\* Lookback without the walk: the point just before the last is the predecessor
Lookback_NoSkip(history, current_price, latest_idx, lookback_count) == latest_idx

RECURSIVE Lookback(_, _, _, _)
\* the while loop of lines 156-164: the value of latest_idx when it ends
Lookback(history, current_price, latest_idx, lookback_count) ==
    IF lookback_count < max_lookback /\ Abs(latest_idx) < Len(history)
    THEN IF current_price # PriceOf(PyIndex(history, latest_idx - 1))
         THEN latest_idx
         ELSE Lookback(history, current_price, latest_idx - 1, lookback_count + 1)
    ELSE latest_idx

\* lines 148-176: price, date and change from a market-data history
EnrichHistory(item, history) ==
    IF history = <<>> THEN item
    ELSE
        LET current_price == PriceOf(PyIndex(history, -1))
            latest_idx == Lookback(history, current_price, -1, 0)
            current_entry == PyIndex(history, latest_idx)
            prev_price == PriceOf(PyIndex(history, latest_idx - 1))
            change_val == current_price - prev_price
            changed ==
                IF Abs(latest_idx - 1) <= Len(history) /\ prev_price > 0
                THEN Put(Put(item, "marketChange", change_val),
                         "marketChangePercentage", Percentage(change_val, prev_price))
                ELSE item
        IN  Assign(Put(changed, "marketPrice", current_price),
                   "marketDate", current_entry, "date")

\* lines 178-182: currency and assetClass from the asset profile, if not set yet
EnrichProfile(item, profile) ==
    LET withCurrency ==
            IF Has(item, "currency") THEN item
            ELSE Assign(item, "currency", profile, "currency")
    IN  IF Has(withCurrency, "assetClass") THEN withCurrency
        ELSE Assign(withCurrency, "assetClass", profile, "assetClass")

\* lines 146-182: the enrichment of one item from its market-data response
Enrich(item, response) ==
    LET history == IF Has(response, "marketData")
                   THEN response["marketData"] ELSE <<>>
        profile == IF Has(response, "assetProfile")
                   THEN response["assetProfile"] ELSE EmptyDict
    IN  EnrichProfile(EnrichHistory(item, history), profile)

(***************************************************************************)
(* What the remote server may answer (the inputs of the refresh actions).  *)
(***************************************************************************)
AccountIdPool == <<"a1", "a2", "a3">>

Account(i, excluded) == [id |-> <<AccountIdPool[i]>>, isExcluded |-> excluded]

AccountLists ==
    UNION { {[i \in 1..n |-> Account(i, f[i])] : f \in [1..n -> BOOLEAN]} :
            n \in 0..MaxAccounts }

AccountsResponses == {[accounts |-> l] : l \in AccountLists}

\* an opaque performance record; account_id is <<>> for the whole portfolio
Performance(account_id) == [accountId |-> account_id, netPerformance |-> 1]

Holding(symbol, quantity) == [symbol |-> symbol, quantity |-> quantity]

HoldingsResponses ==
    { [holdings |-> <<Holding(<<"AAPL">>, 2), Holding(<<"MSFT">>, 0)>>] }

WatchPool ==
    << [symbol |-> <<"MSFT">>, dataSource |-> <<"YAHOO">>],
       [symbol |-> <<"BTC", "-", "USD">>],
       [symbol |-> <<"AAPL">>, dataSource |-> <<"YAHOO">>],
       [symbol |-> <<"BTC", "-", "USD">>, dataSource |-> <<"COINGECKO">>] >>

WatchLists == {SubSeq(WatchPool, 1, n) : n \in 0..MaxWatch}

\* a bare list, a wrapper object with a "watchlist" or an "items" key, or neither
WatchlistResponses ==
    {[type |-> "list", value |-> l] : l \in WatchLists}
    \cup {[type |-> "dict", value |-> [watchlist |-> l]] : l \in WatchLists}
    \cup {[type |-> "dict", value |-> [items |-> l]] : l \in WatchLists}
    \cup {[type |-> "other", value |-> <<>>]}

PricePoint(date, price) == [date |-> date, marketPrice |-> price]

MarketDataResponses ==
    { [marketData |-> <<PricePoint("d1", 100), PricePoint("d2", 100),
                        PricePoint("d3", 120)>>,
       assetProfile |-> [currency |-> "USD", assetClass |-> "EQUITY"]] }

\* GhostfolioAPI.get_provider_health(code) when it returns
HealthRecord(code) == [code |-> code, is_active |-> TRUE, status_code |-> 200]

\* GhostfolioAPI.get_provider_health(code) returns a record or fails
HealthOutcomes == {"done", "raised"}

FlagSettings ==
    [show_totals : BOOLEAN, show_accounts : BOOLEAN,
     show_holdings : BOOLEAN, show_watchlist : BOOLEAN]

(***************************************************************************)
(* The Snapshot.                                                           *)
(***************************************************************************)
\* self.data before the first refresh (None)
NoData == [none |-> TRUE]

\* lines 77-85: the default "Offline" data structure
OfflineData ==
    [server_online |-> FALSE,
     accounts |-> EmptyDict,
     global_performance |-> EmptyDict,
     account_performances |-> EmptyDict,
     account_holdings |-> EmptyDict,
     watchlist |-> <<>>,
     providers |-> EmptyDict]

\* self.data.get("server_online", False)
ServerOnline(snapshot) == Has(snapshot, "server_online") /\ snapshot["server_online"]

\* lines 202-208: the fields assigned on success
SuccessData(accounts, global, performances, holdings, watchlist, providers) ==
    [server_online |-> TRUE,
     accounts |-> accounts,
     global_performance |-> global,
     account_performances |-> performances,
     account_holdings |-> holdings,
     watchlist |-> watchlist,
     providers |-> providers]

\* lines 198-199: provider_results[res["code"]] = res for the gathered results
ProviderResults(tasks) ==
    [c \in {HealthRecord(p)["code"] : p \in DOMAIN tasks} |-> HealthRecord(c)]

\* accounts_data.get("accounts", [])
AccountsList(accounts) == IF Has(accounts, "accounts") THEN accounts["accounts"] ELSE <<>>

\* lines 132-136: the raw items of a watchlist response of either shape
RawItems(wl_response) ==
    IF wl_response.type = "list" THEN wl_response.value
    ELSE IF wl_response.type = "dict"
    THEN IF Has(wl_response.value, "watchlist") /\ wl_response.value["watchlist"] # <<>>
         THEN wl_response.value["watchlist"]
         ELSE IF Has(wl_response.value, "items") THEN wl_response.value["items"] ELSE <<>>
    ELSE <<>>

(***************************************************************************)
(* The reconciler: async_prune_orphans (lines 216-305).                    *)
(***************************************************************************)
\* self.entry.entry_id, and the id of another instance of the integration
ENTRY_ID == <<"e1">>
OTHER_ENTRY_ID == <<"e2">>

\* QuantityOf as if every holding were active
QuantityOf_Unfiltered(h) == 1

\* float(h.get("quantity") or 0)
QuantityOf(h) == IF Has(h, "quantity") THEN h["quantity"] ELSE 0

\* item.get("symbol"), h.get("symbol"): None is the empty text for slugify
SymbolOf(item) == IF Has(item, "symbol") THEN item["symbol"] ELSE <<>>

\* lines 251-252, 267-268: `if account.get("isExcluded"): continue`
Included(accounts_list) ==
    {i \in DOMAIN accounts_list : ~accounts_list[i]["isExcluded"]}

\* lines 229-236
GlobalIds(flags, entry_id) ==
    IF flags.show_totals THEN {InstanceId(k, entry_id) : k \in GlobalKinds} ELSE {}

\* DiagnosticIds without line 244: the prune button is not expected
DiagnosticIds_NoButton(entry_id) ==
    {InstanceId(<<"server", "_", "status">>, entry_id)}
    \cup {PartId(<<"provider">>, Lower(DATA_PROVIDERS[i]), entry_id) : i \in DOMAIN DATA_PROVIDERS}

\* lines 239-244: server status, provider health, prune button
DiagnosticIds(entry_id) ==
    {InstanceId(<<"server", "_", "status">>, entry_id)}
    \cup {PartId(<<"provider">>, Lower(DATA_PROVIDERS[i]), entry_id) : i \in DOMAIN DATA_PROVIDERS}
    \cup {InstanceId(<<"prune", "_", "button">>, entry_id)}

\* lines 247-260
AccountIds(snapshot, flags, entry_id) ==
    LET accounts_list == AccountsList(snapshot.accounts)
    IN  IF flags.show_accounts
        THEN {PartId(k, accounts_list[i]["id"], entry_id) :
                k \in AccountKinds, i \in Included(accounts_list)}
        ELSE {}

\* all_holdings.get(account_id, [])
HoldingsOf(all_holdings, account_id) ==
    IF Has(all_holdings, account_id) THEN all_holdings[account_id] ELSE <<>>

\* lines 263-282
HoldingIds(snapshot, flags, entry_id) ==
    LET accounts_list == AccountsList(snapshot.accounts)
        all_holdings == snapshot.account_holdings
    IN  IF flags.show_holdings
        THEN UNION { LET account_id == accounts_list[i]["id"]
                         holdings == HoldingsOf(all_holdings, account_id)
                     IN  {HoldingId(k, account_id, slugify(SymbolOf(holdings[j])), entry_id) :
                            k \in HoldingKinds,
                            j \in {n \in DOMAIN holdings : QuantityOf(holdings[n]) > 0}} :
                     i \in Included(accounts_list) }
        ELSE {}

\* lines 285-295
WatchlistIds(snapshot, flags, entry_id) ==
    IF flags.show_watchlist
    THEN {PartId(k, slugify(SymbolOf(snapshot.watchlist[j])), entry_id) :
            k \in WatchlistKinds, j \in DOMAIN snapshot.watchlist}
    ELSE {}

\* lines 225-295: valid_unique_ids
valid_unique_ids(snapshot, flags, entry_id) ==
    GlobalIds(flags, entry_id) \cup DiagnosticIds(entry_id)
    \cup AccountIds(snapshot, flags, entry_id)
    \cup HoldingIds(snapshot, flags, entry_id)
    \cup WatchlistIds(snapshot, flags, entry_id)

\* EntriesForConfigEntry without the filter: every entry of the registry
EntriesForConfigEntry_All(reg, entry_id) == reg

\* er.async_entries_for_config_entry(entity_registry, entry_id)
EntriesForConfigEntry(reg, entry_id) == {e \in reg : e.config_entry_id = entry_id}

\* lines 299-303: the entries the loop removes
Orphans(entries, valid) == {e \in entries : e.unique_id \notin valid}

\* CannotPrune with only `if not self.data`
CannotPrune_OnlyNone(snapshot) == snapshot = NoData

\* Remaining without the call of line 302: the loop counts and removes nothing
Remaining_NothingRemoved(reg, removed) == reg

\* line 302: entity_registry.async_remove(entity_entry.entity_id), for each orphan
Remaining(reg, removed) == reg \ removed

\* line 218: `if not self.data or not self.data.get("server_online", False)`
CannotPrune(snapshot) == snapshot = NoData \/ ~ServerOnline(snapshot)

\* no prune has run yet
NoReport == [outcome |-> "none", removed_count |-> 0]

\* async_prune_orphans: no await, so one step
Prune ==
    /\ IF CannotPrune(data)
       THEN /\ prune_report' = [outcome |-> "offline", removed_count |-> 0]
            /\ registry' = registry
       ELSE LET entries == EntriesForConfigEntry(registry, ENTRY_ID)
                removed == Orphans(entries, valid_unique_ids(data, cfg, ENTRY_ID))
            IN  /\ registry' = Remaining(registry, removed)
                /\ prune_report' = [outcome |-> "complete",
                                    removed_count |-> Cardinality(removed)]
    /\ prior_report' = prune_report
    /\ UNCHANGED <<cfg, data, pc, locals, health_tasks, calls>>

(***************************************************************************)
(* The orchestrator: _async_update_data (lines 73-214).                    *)
(***************************************************************************)
NoTasks == [p \in ProviderCodes |-> "none"]

NoCalls ==
    [accounts |-> "none", global |-> "none", performance |-> EmptyDict,
     holdings |-> EmptyDict, watchlist |-> "none", market_data |-> EmptyDict,
     returned |-> FALSE]

Min(S) == CHOOSE x \in S : \A y \in S : x <= y

\* NextAccount without line 105-106: excluded accounts are fetched too
NextAccount_NoSkip(accounts_list, i) ==
    IF i < Len(accounts_list) THEN i + 1 ELSE 0

\* the next iteration of `for account in accounts_list` that is not skipped
\* by `if account.get("isExcluded"): continue`; 0 when the loop is over
NextAccount(accounts_list, i) ==
    LET later == {j \in DOMAIN accounts_list : j > i /\ ~accounts_list[j]["isExcluded"]}
    IN  IF later = {} THEN 0 ELSE Min(later)

\* line 143: `if symbol and data_source`
Fetchable(item) ==
    /\ Has(item, "symbol") /\ item["symbol"] # <<>>
    /\ Has(item, "dataSource") /\ item["dataSource"] # <<>>

\* the next iteration of `for item in raw_items` that awaits get_market_data;
\* Len(items) + 1 when the loop is over
NextFetch(items, i) ==
    LET later == {j \in DOMAIN items : j > i /\ Fetchable(items[j])}
    IN  IF later = {} THEN Len(items) + 1 ELSE Min(later)

\* line 197: asyncio.gather starts one get_provider_health call per provider
StartedTasks == [p \in ProviderCodes |-> "pending"]

\* the coroutine runs on to its next await
Goto(next_pc, next_idx) ==
    /\ pc' = next_pc
    /\ idx' = next_idx
    /\ health_tasks' = IF next_pc = "gather" THEN StartedTasks ELSE health_tasks

\* AfterAccounts without the test of line 128: the watchlist is always fetched
AfterAccounts_AlwaysWatchlist == Goto("get_watchlist", 0)

\* line 128: after the accounts loop, `if show_watchlist`
AfterAccounts == IF cfg.show_watchlist THEN Goto("get_watchlist", 0) ELSE Goto("gather", 0)

\* lines 104-108: on to the next account that is not excluded
ContinueAccounts(accounts_list, i) ==
    IF NextAccount(accounts_list, i) # 0
    THEN Goto("account_performance", NextAccount(accounts_list, i))
    ELSE AfterAccounts

\* lines 139-143, 187: items that need no market data are appended as they are
ContinueWatchlist(items, i, done) ==
    LET j == NextFetch(items, i)
    IN  /\ watchlist_items' = done \o SubSeq(items, i + 1, j - 1)
        /\ IF j <= Len(items) THEN Goto("get_market_data", j) ELSE Goto("gather", 0)

\* ReturnOffline without the handler of lines 212-214: the exception leaves
\* _async_update_data and nothing is cached
ReturnOffline_Propagates ==
    /\ data' = data
    /\ pc' = "idle"
    /\ idx' = 0

\* lines 212-214: the outer handler returns the default data, which the
\* coordinator caches
ReturnOffline ==
    /\ data' = OfflineData
    /\ pc' = "idle"
    /\ idx' = 0

\* The cycles the model follows: the first refresh of async_setup_entry and
\* every scheduled refresh up to the first online Snapshot.  (The host runs one
\* refresh at a time: a cycle starts only from pc = "idle".)
MayRefresh == ~ServerOnline(data)

\* BeginCycle as if the default dict of lines 77-85 were put in the cache
BeginCycle_ClearsCache ==
    /\ pc' = "get_accounts"
    /\ accounts_data' = EmptyDict
    /\ global_performance' = EmptyDict
    /\ account_performances' = EmptyDict
    /\ holdings_by_account' = EmptyDict
    /\ raw_items' = <<>>
    /\ watchlist_items' = <<>>
    /\ market_data_resp' = EmptyDict
    /\ idx' = 0
    /\ health_tasks' = NoTasks
    /\ calls' = NoCalls
    /\ data' = OfflineData
    /\ UNCHANGED <<cfg, registry, prune_report, prior_report>>

\* lines 73-89: _async_update_data runs up to its first await
BeginCycle ==
    /\ pc' = "get_accounts"
    /\ accounts_data' = EmptyDict
    /\ global_performance' = EmptyDict
    /\ account_performances' = EmptyDict
    /\ holdings_by_account' = EmptyDict
    /\ raw_items' = <<>>
    /\ watchlist_items' = <<>>
    /\ market_data_resp' = EmptyDict
    /\ idx' = 0
    /\ health_tasks' = NoTasks
    /\ calls' = NoCalls
    /\ UNCHANGED <<cfg, data, registry, prune_report, prior_report>>

\* the scheduler starts a refresh cycle
StartRefresh ==
    /\ pc = "idle"
    /\ MayRefresh
    /\ BeginCycle

\* lines 89-90: await self.api.get_accounts()
GetAccounts ==
    /\ pc = "get_accounts"
    /\ \/ \E r \in AccountsResponses :
            /\ accounts_data' = r
            /\ calls' = [calls EXCEPT !.accounts = "ok"]
            /\ pc' = "get_portfolio_performance"
            /\ UNCHANGED <<data, idx>>
       \/ /\ calls' = [calls EXCEPT !.accounts = "fail", !.returned = TRUE]
          /\ ReturnOffline
          /\ UNCHANGED accounts_data
    /\ UNCHANGED <<cfg, registry, prune_report, prior_report, global_performance,
                   account_performances, holdings_by_account, raw_items,
                   watchlist_items, market_data_resp, health_tasks>>

\* lines 93-104: await self.api.get_portfolio_performance()
GetGlobalPerformance ==
    /\ pc = "get_portfolio_performance"
    /\ \/ /\ global_performance' = Performance(<<>>)
          /\ calls' = [calls EXCEPT !.global = "ok"]
          /\ ContinueAccounts(AccountsList(accounts_data), 0)
          /\ UNCHANGED data
       \/ /\ calls' = [calls EXCEPT !.global = "fail", !.returned = TRUE]
          /\ ReturnOffline
          /\ UNCHANGED <<global_performance, health_tasks>>
    /\ UNCHANGED <<cfg, registry, prune_report, prior_report, accounts_data,
                   account_performances, holdings_by_account, raw_items,
                   watchlist_items, market_data_resp>>

\* lines 111-118: await self.api.get_portfolio_performance(account_id=account_id)
GetAccountPerformance ==
    /\ pc = "account_performance"
    /\ LET accounts_list == AccountsList(accounts_data)
           account_id == accounts_list[idx]["id"]
       IN  /\ \/ /\ account_performances' =
                        Put(account_performances, account_id, Performance(account_id))
                 /\ calls' = [calls EXCEPT !.performance = Put(@, account_id, "ok")]
              \/ /\ calls' = [calls EXCEPT !.performance = Put(@, account_id, "fail")]
                 /\ UNCHANGED account_performances
           /\ IF cfg.show_holdings
              THEN Goto("get_holdings", idx)
              ELSE ContinueAccounts(accounts_list, idx)
    /\ UNCHANGED <<cfg, data, registry, prune_report, prior_report, accounts_data,
                   global_performance, holdings_by_account, raw_items,
                   watchlist_items, market_data_resp>>

\* lines 119-125: await self.api.get_holdings(account_id=account_id)
GetHoldings ==
    /\ pc = "get_holdings"
    /\ LET accounts_list == AccountsList(accounts_data)
           account_id == accounts_list[idx]["id"]
       IN  /\ \/ \E r \in HoldingsResponses :
                    /\ holdings_by_account' =
                          Put(holdings_by_account, account_id,
                              IF Has(r, "holdings") THEN r["holdings"] ELSE <<>>)
                    /\ calls' = [calls EXCEPT !.holdings = Put(@, account_id, "ok")]
              \/ /\ calls' = [calls EXCEPT !.holdings = Put(@, account_id, "fail")]
                 /\ UNCHANGED holdings_by_account
           /\ ContinueAccounts(accounts_list, idx)
    /\ UNCHANGED <<cfg, data, registry, prune_report, prior_report, accounts_data,
                   global_performance, account_performances, raw_items,
                   watchlist_items, market_data_resp>>

\* lines 129-143, 189-190: await self.api.get_watchlist()
GetWatchlist ==
    /\ pc = "get_watchlist"
    /\ \/ \E r \in WatchlistResponses :
            /\ raw_items' = RawItems(r)
            /\ calls' = [calls EXCEPT !.watchlist = "ok"]
            /\ ContinueWatchlist(RawItems(r), 0, <<>>)
       \/ /\ calls' = [calls EXCEPT !.watchlist = "fail"]
          /\ Goto("gather", 0)
          /\ UNCHANGED <<raw_items, watchlist_items>>
    /\ UNCHANGED <<cfg, data, registry, prune_report, prior_report, accounts_data,
                   global_performance, account_performances, holdings_by_account,
                   market_data_resp>>

\* lines 145-187: get_market_data has returned r; the entry is enriched from
\* it and appended
EnrichAndAppend(r) ==
    /\ market_data_resp' = r
    /\ calls' = [calls EXCEPT !.market_data = Put(@, idx, "ok")]
    /\ ContinueWatchlist(raw_items, idx,
                         Append(watchlist_items, Enrich(raw_items[idx], r)))

\* lines 144-187: await self.api.get_market_data(data_source, symbol)
GetMarketData ==
    /\ pc = "get_market_data"
    /\ \/ \E r \in MarketDataResponses : EnrichAndAppend(r)
       \/ /\ calls' = [calls EXCEPT !.market_data = Put(@, idx, "fail")]
          /\ ContinueWatchlist(raw_items, idx, Append(watchlist_items, raw_items[idx]))
          /\ UNCHANGED market_data_resp
    /\ UNCHANGED <<cfg, data, registry, prune_report, prior_report, accounts_data,
                   global_performance, account_performances, holdings_by_account,
                   raw_items>>

\* lines 194-195: one get_provider_health call returns or raises
ProviderHealth(p) ==
    /\ health_tasks[p] = "pending"
    /\ \E outcome \in HealthOutcomes : health_tasks' = [health_tasks EXCEPT ![p] = outcome]
    /\ UNCHANGED <<cfg, data, registry, prune_report, prior_report, pc, locals, calls>>

\* lines 197-210: gather hands over every result; the Snapshot is filled and cached
GatherReturns ==
    /\ pc = "gather"
    /\ \A p \in ProviderCodes : health_tasks[p] = "done"
    /\ data' = SuccessData(accounts_data, global_performance, account_performances,
                           holdings_by_account, watchlist_items,
                           ProviderResults(health_tasks))
    /\ pc' = "idle"
    /\ calls' = [calls EXCEPT !.returned = TRUE]
    /\ UNCHANGED <<cfg, registry, prune_report, prior_report, locals, health_tasks>>

\* lines 197, 212-214: gather (return_exceptions not set) raises the first
\* exception of a call as soon as there is one; the other calls run on
GatherRaises ==
    /\ pc = "gather"
    /\ \E p \in ProviderCodes : health_tasks[p] = "raised"
    /\ ReturnOffline
    /\ calls' = [calls EXCEPT !.returned = TRUE]
    /\ UNCHANGED <<cfg, registry, prune_report, prior_report, accounts_data, global_performance,
                   account_performances, holdings_by_account, raw_items,
                   watchlist_items, market_data_resp, health_tasks>>

(***************************************************************************)
(* The entity registry at setup.                                           *)
(***************************************************************************)
Entity(entity_id, unique_id, config_entry_id) ==
    [entity_id |-> entity_id, unique_id |-> unique_id, config_entry_id |-> config_entry_id]

\* entities that earlier runs may have left registered
InstalledEntities ==
    { Entity("binary_sensor.server", ServerSensorId(ENTRY_ID), ENTRY_ID),
      Entity("button.prune", PruneButtonId(ENTRY_ID), ENTRY_ID),
      Entity("binary_sensor.yahoo", ProviderSensorId(<<"YAHOO">>, ENTRY_ID), ENTRY_ID),
      Entity("binary_sensor.coingecko", ProviderSensorId(<<"COINGECKO">>, ENTRY_ID), ENTRY_ID),
      Entity("sensor.current_value", InstanceId(<<"current", "_", "value">>, ENTRY_ID), ENTRY_ID),
      Entity("sensor.a1_value", PartId(<<"account", "_", "value">>, <<"a1">>, ENTRY_ID), ENTRY_ID),
      Entity("sensor.a2_value", PartId(<<"account", "_", "value">>, <<"a2">>, ENTRY_ID), ENTRY_ID),
      Entity("sensor.a1_aapl", HoldingId(<<"holding">>, <<"a1">>, <<"aapl">>, ENTRY_ID), ENTRY_ID),
      Entity("number.a1_msft_low", HoldingId(<<"limit", "_", "low">>, <<"a1">>, <<"msft">>, ENTRY_ID), ENTRY_ID),
      Entity("sensor.a2_aapl", HoldingId(<<"holding">>, <<"a2">>, <<"aapl">>, ENTRY_ID), ENTRY_ID),
      Entity("sensor.watch_msft", PartId(<<"watchlist">>, <<"msft">>, ENTRY_ID), ENTRY_ID),
      Entity("sensor.watch_btc_usd", PartId(<<"watchlist">>, <<"btc", "_", "usd">>, ENTRY_ID), ENTRY_ID),
      Entity("sensor.watch_tsla", PartId(<<"watchlist">>, <<"tsla">>, ENTRY_ID), ENTRY_ID),
      Entity("sensor.other_watch_tsla", PartId(<<"watchlist">>, <<"tsla">>, OTHER_ENTRY_ID), OTHER_ENTRY_ID) }

(***************************************************************************)
(* Spec: the integration from setup to its first online Snapshot, with a   *)
(* prune possible at any point.                                            *)
(***************************************************************************)
Init ==
    /\ cfg \in FlagSettings
    /\ data = NoData
    /\ registry = InstalledEntities
    /\ prune_report = NoReport
    /\ prior_report = NoReport
    /\ pc = "idle"
    /\ accounts_data = EmptyDict
    /\ global_performance = EmptyDict
    /\ account_performances = EmptyDict
    /\ holdings_by_account = EmptyDict
    /\ raw_items = <<>>
    /\ watchlist_items = <<>>
    /\ market_data_resp = EmptyDict
    /\ idx = 0
    /\ health_tasks = NoTasks
    /\ calls = NoCalls

Next ==
    \/ StartRefresh
    \/ GetAccounts
    \/ GetGlobalPerformance
    \/ GetAccountPerformance
    \/ GetHoldings
    \/ GetWatchlist
    \/ GetMarketData
    \/ \E p \in ProviderCodes : ProviderHealth(p)
    \/ GatherReturns
    \/ GatherRaises
    \/ Prune

Spec == Init /\ [][Next]_vars

(***************************************************************************)
(* Properties.  calls.returned holds from the return of a cycle to the     *)
(* start of the next one: `data` is then the Snapshot that cycle returned, *)
(* `calls` is the log of its remote calls, and the locals are as the cycle *)
(* left them.                                                              *)
(***************************************************************************)
SnapshotFields ==
    {"server_online", "accounts", "global_performance", "account_performances",
     "account_holdings", "watchlist", "providers"}

\* every collection field of a Snapshot is empty
CollectionsEmpty(snapshot) ==
    /\ DOMAIN snapshot.accounts = {}
    /\ DOMAIN snapshot.global_performance = {}
    /\ DOMAIN snapshot.account_performances = {}
    /\ DOMAIN snapshot.account_holdings = {}
    /\ snapshot.watchlist = <<>>
    /\ DOMAIN snapshot.providers = {}

TopLevelOk == calls.accounts = "ok" /\ calls.global = "ok"

\* no provider health call of the cycle has failed
NoHealthFailure == \A p \in ProviderCodes : health_tasks[p] # "raised"

\* the ids of the non-excluded accounts of the accounts response
IncludedIds ==
    {accounts_data["accounts"][i]["id"] :
        i \in {j \in DOMAIN AccountsList(accounts_data) :
                 ~accounts_data["accounts"][j]["isExcluded"]}}

\* C1: a returned Snapshot is online iff the accounts fetch and the global
\* performance fetch both succeeded, whatever the other calls did; an offline
\* Snapshot has empty collections.
C1_OnlineIffTopLevel ==
    calls.returned =>
        /\ ServerOnline(data) <=> TopLevelOk
        /\ ~ServerOnline(data) => CollectionsEmpty(data)

\* C1 restricted to the cycles in which no provider health call failed.
C1_WhenHealthSucceeds ==
    (calls.returned /\ NoHealthFailure) =>
        /\ ServerOnline(data) <=> TopLevelOk
        /\ ~ServerOnline(data) => CollectionsEmpty(data)

\* C3: in a cycle where one provider call failed and every other remote call
\* succeeded, the returned Snapshot holds, under its own code, the health
\* record of every provider whose call succeeded.
C3_ProviderFailureIsolated ==
    ( /\ calls.returned
      /\ TopLevelOk
      /\ \A a \in DOMAIN calls.performance : calls.performance[a] = "ok"
      /\ \A a \in DOMAIN calls.holdings : calls.holdings[a] = "ok"
      /\ calls.watchlist # "fail"
      /\ \A i \in DOMAIN calls.market_data : calls.market_data[i] = "ok"
      /\ Cardinality({p \in ProviderCodes : health_tasks[p] = "raised"}) = 1 )
    => \A p \in ProviderCodes :
          health_tasks[p] = "done" =>
              /\ Has(data.providers, p)
              /\ data.providers[p] = HealthRecord(p)

\* C4: every non-excluded account has its performance fetch and (holdings
\* display on) its holdings fetch attempted whatever failed before, and is a key
\* of account_performances (account_holdings) of the returned Snapshot exactly
\* when its own fetch succeeded.
C4_PerAccountIsolation ==
    (calls.returned /\ TopLevelOk) =>
        \A a \in IncludedIds :
            /\ Has(calls.performance, a)
            /\ cfg.show_holdings => Has(calls.holdings, a)
            /\ Has(data.account_performances, a)
                 <=> (Has(calls.performance, a) /\ calls.performance[a] = "ok")
            /\ Has(data.account_holdings, a)
                 <=> (Has(calls.holdings, a) /\ calls.holdings[a] = "ok")

\* C4 restricted to the cycles in which no provider health call failed.
C4_WhenHealthSucceeds == (calls.returned /\ NoHealthFailure) => C4_PerAccountIsolation

\* C5: a cycle whose watchlist fetch raised (the top-level fetches succeeded)
\* returns an online Snapshot with an empty watchlist and with the account
\* data as fetched.
C5_WatchlistFailureTolerated ==
    (calls.returned /\ calls.watchlist = "fail") =>
        /\ ServerOnline(data)
        /\ data.watchlist = <<>>
        /\ data.accounts = accounts_data
        /\ data.global_performance = global_performance
        /\ DOMAIN data.account_performances =
              {a \in DOMAIN calls.performance : calls.performance[a] = "ok"}
        /\ DOMAIN data.account_holdings =
              {a \in DOMAIN calls.holdings : calls.holdings[a] = "ok"}

\* C5 restricted to the cycles in which no provider health call failed.
C5_WhenHealthSucceeds ==
    (calls.returned /\ NoHealthFailure) => C5_WatchlistFailureTolerated

\* the fields enrichment adds from the price history
ChangeFields == {"marketPrice", "marketDate", "marketChange", "marketChangePercentage"}

\* C6: with watchlist display on and the raw fetch successful, the Snapshot's
\* watchlist holds every raw entry once and in order; an entry whose market-data
\* call failed is there unenriched, and every entry with a symbol and a data
\* source had its market-data call made, whichever calls failed before it.
C6_WatchlistEntriesKept ==
    (calls.returned /\ cfg.show_watchlist /\ calls.watchlist = "ok") =>
        /\ Len(data.watchlist) = Len(raw_items)
        /\ \A i \in DOMAIN raw_items :
              /\ i \in DOMAIN data.watchlist
              /\ SymbolOf(data.watchlist[i]) = SymbolOf(raw_items[i])
              /\ Fetchable(raw_items[i]) => Has(calls.market_data, i)
              /\ (Has(calls.market_data, i) /\ calls.market_data[i] = "fail") =>
                    /\ data.watchlist[i] = raw_items[i]
                    /\ DOMAIN data.watchlist[i] \cap ChangeFields = {}

\* C6 restricted to the cycles in which no provider health call failed.
C6_WhenHealthSucceeds == (calls.returned /\ NoHealthFailure) => C6_WatchlistEntriesKept

\* C2: every refresh cycle that ends, whatever calls failed, has returned a
\* Snapshot (no exception left it); a cached Snapshot has exactly the seven
\* fields and is either the all-defaults offline one or holds, in every field,
\* what the one completed cycle fetched.
C2_SnapshotWhole ==
    /\ calls.returned <=> (pc = "idle" /\ data # NoData)
    /\ data # NoData =>
          /\ DOMAIN data = SnapshotFields
          /\ \/ data = OfflineData
             \/ /\ data.server_online = TRUE
                /\ calls.returned
                /\ data.accounts = accounts_data
                /\ data.global_performance = global_performance
                /\ data.account_performances = account_performances
                /\ data.account_holdings = holdings_by_account
                /\ data.watchlist = watchlist_items
                /\ data.providers = [p \in ProviderCodes |-> HealthRecord(p)]

\* a cycle degraded by sub-fetch failures has returned an online Snapshot
C2_Witness ==
    /\ calls.returned
    /\ ServerOnline(data)
    /\ calls.watchlist = "fail"
    /\ \E a \in DOMAIN calls.performance : calls.performance[a] = "fail"
    /\ \E a \in DOMAIN calls.holdings : calls.holdings[a] = "fail"

AllFlagsOn ==
    [show_totals |-> TRUE, show_accounts |-> TRUE,
     show_holdings |-> TRUE, show_watchlist |-> TRUE]

\* the accounts for which the cycle issued a per-account fetch
FetchedAccounts == (DOMAIN calls.performance) \cup (DOMAIN calls.holdings)

\* the slugs of the symbols held in a Snapshot
HeldSlugs(snapshot) ==
    UNION { {slugify(SymbolOf(snapshot.account_holdings[a][j])) :
                j \in DOMAIN snapshot.account_holdings[a]} :
            a \in DOMAIN snapshot.account_holdings }

\* the accounts of a Snapshot that have an account or holding identifier in the
\* reconciler's expected set (all display flags on)
ContributingAccounts(snapshot) ==
    LET expected == valid_unique_ids(snapshot, AllFlagsOn, ENTRY_ID)
        ids == {AccountsList(snapshot.accounts)[i]["id"] :
                  i \in DOMAIN AccountsList(snapshot.accounts)}
        slugs == HeldSlugs(snapshot)
    IN  {a \in ids :
            \/ \E k \in AccountKinds : PartId(k, a, ENTRY_ID) \in expected
            \/ \E k \in HoldingKinds, sym \in slugs :
                  HoldingId(k, a, sym, ENTRY_ID) \in expected}

ExcludedIds ==
    {AccountsList(accounts_data)[i]["id"] :
        i \in {j \in DOMAIN AccountsList(accounts_data) :
                 AccountsList(accounts_data)[j]["isExcluded"]}}

\* C10: the accounts a cycle fetches per-account data for are exactly the
\* accounts that contribute identifiers to the expected set the reconciler
\* builds from the Snapshot of that cycle, and no excluded account is among them.
C10_ExclusionConsistent ==
    (calls.returned /\ ServerOnline(data)) =>
        LET contributing == ContributingAccounts(data)
        IN  /\ FetchedAccounts = contributing
            /\ ExcludedIds \cap (FetchedAccounts \cup contributing) = {}

\* an online Snapshot with an excluded and a non-excluded account
C10_Witness ==
    /\ calls.returned
    /\ ServerOnline(data)
    /\ ExcludedIds # {}
    /\ FetchedAccounts # {}
    /\ FetchedAccounts = ContributingAccounts(data)

\* the entities registered for this integration instance
Registered(reg) == {e \in reg : e.config_entry_id = ENTRY_ID}

\* the identifiers of each display group, whatever the flags
AllGlobalIds == GlobalIds(AllFlagsOn, ENTRY_ID)
AllAccountIds(snapshot) == AccountIds(snapshot, AllFlagsOn, ENTRY_ID)
AllHoldingIds(snapshot) == HoldingIds(snapshot, AllFlagsOn, ENTRY_ID)
AllWatchlistIds(snapshot) == WatchlistIds(snapshot, AllFlagsOn, ENTRY_ID)

\* a toggle that is off leaves no identifier of its group in the expected set
TogglesGateExpected ==
    ServerOnline(data) =>
        LET expected == valid_unique_ids(data, cfg, ENTRY_ID)
        IN  /\ ~cfg.show_totals => expected \cap AllGlobalIds = {}
            /\ ~cfg.show_accounts => expected \cap AllAccountIds(data) = {}
            /\ ~cfg.show_holdings => expected \cap AllHoldingIds(data) = {}
            /\ ~cfg.show_watchlist => expected \cap AllWatchlistIds(data) = {}

\* the holdings and the watchlist toggles, when off, leave their calls unmade
OptionalFetchesGated ==
    /\ ~cfg.show_holdings => DOMAIN calls.holdings = {}
    /\ ~cfg.show_watchlist =>
          (calls.watchlist = "none" /\ DOMAIN calls.market_data = {})

InstalledHoldingEntities(a) ==
    {e \in InstalledEntities :
        \E k \in HoldingKinds, sym \in {<<"aapl">>, <<"msft">>} :
            e.unique_id = HoldingId(k, a, sym, ENTRY_ID)}

\* the entities registered at setup under a watchlist identifier
InstalledWatchlistEntities ==
    {e \in InstalledEntities :
        \E k \in WatchlistKinds, sym \in {<<"msft">>, <<"btc", "_", "usd">>} :
            e.unique_id = PartId(k, sym, ENTRY_ID)}

\* C17: once a cycle has returned an online Snapshot, the registered holding
\* entities of a non-excluded account whose holdings fetch failed in that
\* cycle, and the registered watchlist entities when the raw watchlist fetch
\* failed, stay registered whatever prunes run.
C17_UnreachableDataNotPruned ==
    (calls.returned /\ ServerOnline(data)) =>
        /\ \A a \in IncludedIds :
              (Has(calls.holdings, a) /\ calls.holdings[a] = "fail") =>
                  InstalledHoldingEntities(a) \subseteq registry
        /\ calls.watchlist = "fail" => InstalledWatchlistEntities \subseteq registry

\* C18: a cycle that has returned has no provider health call in flight.
C18_FullJoin ==
    calls.returned => \A p \in ProviderCodes : health_tasks[p] # "pending"

\* C18 restricted to the cycles in which no provider health call failed.
C18_WhenHealthSucceeds == (calls.returned /\ NoHealthFailure) => C18_FullJoin

\* the identifiers under which the diagnostic entities register themselves
DiagnosticEntityIds ==
    {ServerSensorId(ENTRY_ID), PruneButtonId(ENTRY_ID)}
    \cup {ProviderSensorId(DATA_PROVIDERS[i], ENTRY_ID) : i \in DOMAIN DATA_PROVIDERS}

\* the identifiers the reconciler expects whatever the flags and the Snapshot
ReconcilerDiagnosticIds == DiagnosticIds(ENTRY_ID)

\* C20: the identifiers under which the server sensor, the provider sensors
\* and the prune button register are exactly the identifiers the reconciler
\* always expects, and these entities are registered in every state, whatever
\* cycles and prunes have run, the flags and the Snapshot.
C20_DiagnosticEntitiesKept ==
    /\ ReconcilerDiagnosticIds = DiagnosticEntityIds
    /\ ServerOnline(data) =>
          DiagnosticEntityIds \subseteq valid_unique_ids(data, cfg, ENTRY_ID)
    /\ DiagnosticEntityIds \subseteq {e.unique_id : e \in Registered(registry)}

\* a prune with every display flag off has removed every other entity of the
\* instance: only the diagnostic entities are registered
C20_Witness ==
    /\ prune_report.outcome = "complete"
    /\ prune_report.removed_count > 0
    /\ ~cfg.show_totals /\ ~cfg.show_accounts
    /\ ~cfg.show_holdings /\ ~cfg.show_watchlist
    /\ {e.unique_id : e \in Registered(registry)} = DiagnosticEntityIds

(***************************************************************************)
(* SpecPrune: the reconciler alone, run (repeatedly) against every cached   *)
(* Snapshot of a bounded set, under every flag setting and from every set  *)
(* of registered entities drawn from PruneCandidates.                      *)
(***************************************************************************)
PruneCandidates ==
    { Entity("binary_sensor.server", ServerSensorId(ENTRY_ID), ENTRY_ID),
      Entity("sensor.current_value", InstanceId(<<"current", "_", "value">>, ENTRY_ID), ENTRY_ID),
      Entity("sensor.a1_value", PartId(<<"account", "_", "value">>, <<"a1">>, ENTRY_ID), ENTRY_ID),
      Entity("sensor.a1_aapl", HoldingId(<<"holding">>, <<"a1">>, <<"aapl">>, ENTRY_ID), ENTRY_ID),
      Entity("sensor.watch_msft", PartId(<<"watchlist">>, <<"msft">>, ENTRY_ID), ENTRY_ID),
      Entity("sensor.watch_tsla", PartId(<<"watchlist">>, <<"tsla">>, ENTRY_ID), ENTRY_ID),
      Entity("sensor.other_watch_tsla", PartId(<<"watchlist">>, <<"tsla">>, OTHER_ENTRY_ID),
             OTHER_ENTRY_ID) }

\* the Snapshot of a cycle that went through, with the holdings of the
\* non-excluded accounts fetched or not, and the raw watchlist fetched or not
OnlineSnapshot(accounts_list, with_holdings, watchlist) ==
    LET ids == {accounts_list[i]["id"] :
                  i \in {j \in DOMAIN accounts_list : ~accounts_list[j]["isExcluded"]}}
    IN  SuccessData([accounts |-> accounts_list],
                    Performance(<<>>),
                    [a \in ids |-> Performance(a)],
                    IF with_holdings
                    THEN [a \in ids |-> <<Holding(<<"AAPL">>, 2), Holding(<<"MSFT">>, 0)>>]
                    ELSE EmptyDict,
                    watchlist,
                    [p \in ProviderCodes |-> HealthRecord(p)])

CachedSnapshots ==
    {NoData, OfflineData}
    \cup {OnlineSnapshot(l, h, w) :
            l \in AccountLists, h \in BOOLEAN, w \in {<<>>, SubSeq(WatchPool, 1, 1)}}

InitPrune ==
    /\ cfg \in FlagSettings
    /\ data \in CachedSnapshots
    /\ registry \in SUBSET PruneCandidates
    /\ prune_report = NoReport
    /\ prior_report = NoReport
    /\ pc = "idle"
    /\ accounts_data = EmptyDict
    /\ global_performance = EmptyDict
    /\ account_performances = EmptyDict
    /\ holdings_by_account = EmptyDict
    /\ raw_items = <<>>
    /\ watchlist_items = <<>>
    /\ market_data_resp = EmptyDict
    /\ idx = 0
    /\ health_tasks = NoTasks
    /\ calls = NoCalls

NextPrune == Prune

SpecPrune == InitPrune /\ [][NextPrune]_vars

\* a step that is a run of the reconciler
PruneStep == <<prune_report, prior_report, registry>>' # <<prune_report, prior_report, registry>>

\* C7: a prune against an online Snapshot leaves registered, for this instance,
\* exactly the entities registered before whose identifier is expected; it adds
\* none, touches no entity of another instance, and reports the number removed.
C7_PruneIsSetDifference ==
    [][ (PruneStep /\ ServerOnline(data)) =>
            LET expected == valid_unique_ids(data, cfg, ENTRY_ID)
            IN  /\ Registered(registry') =
                      {e \in Registered(registry) : e.unique_id \in expected}
                /\ registry' \subseteq registry
                /\ registry' \ Registered(registry') = registry \ Registered(registry)
                /\ prune_report'.outcome = "complete"
                /\ prune_report'.removed_count = Cardinality(registry \ registry')
      ]_vars

\* a prune has removed some entities and kept a data entity that is expected
C7_Witness ==
    /\ prune_report.outcome = "complete"
    /\ prune_report.removed_count >= 2
    /\ \E e \in Registered(registry) : e.unique_id \notin DiagnosticIds(ENTRY_ID)
    /\ \E e \in registry : e.config_entry_id = OTHER_ENTRY_ID

\* C8: a prune while the cached Snapshot is offline, or while none is cached,
\* removes nothing, leaves the registry as it was and reports the
\* precondition failure.
C8_OfflinePruneIsNoOp ==
    [][ (PruneStep /\ ~ServerOnline(data)) =>
            /\ registry' = registry
            /\ prune_report'.outcome = "offline"
            /\ prune_report'.removed_count = 0
      ]_vars

\* a prune was refused against the offline Snapshot although the registry holds
\* an entity that a prune would remove
C8_Witness ==
    /\ prune_report.outcome = "offline"
    /\ data = OfflineData
    /\ \E e \in Registered(registry) :
          e.unique_id \notin valid_unique_ids(data, cfg, ENTRY_ID)

\* C9: a prune that follows a completed prune, the cached Snapshot being the
\* same, removes nothing and leaves the registry as the first one left it.
C9_PruneIdempotent ==
    [][ (PruneStep /\ prune_report.outcome = "complete" /\ data' = data) =>
            /\ registry' = registry
            /\ prune_report'.outcome = "complete"
            /\ prune_report'.removed_count = 0
      ]_vars

\* two prunes have run in a row: the first removed entities, the second none
C9_Witness ==
    /\ prior_report.outcome = "complete"
    /\ prior_report.removed_count > 0
    /\ prune_report.outcome = "complete"
    /\ prune_report.removed_count = 0

(***************************************************************************)
(* SpecExpected: the reconciler run against Snapshots whose holdings carry *)
(* every kind of quantity and whose watchlist carries symbols of several   *)
(* spellings, under every flag setting.                                    *)
(***************************************************************************)
MaxHoldings == 2

\* the symbol of the holding at each position of a holdings response
HoldingSymbolPool == << <<"AAPL">>, <<"MSFT">>, <<"BTC", "-", "USD">> >>

\* what the remote may send as the quantity of a holding
QuantityCases == {"positive", "zero", "negative", "null"}

HoldingOf(symbol, quantity_case) ==
    CASE quantity_case = "positive" -> Holding(symbol, 2)
      [] quantity_case = "zero" -> Holding(symbol, 0)
      [] quantity_case = "negative" -> Holding(symbol, -1)
      [] OTHER -> [symbol |-> symbol]

HoldingLists ==
    UNION { {[j \in 1..n |-> HoldingOf(HoldingSymbolPool[j], q[j])] :
                q \in [1..n -> QuantityCases]} :
            n \in 0..MaxHoldings }

\* watchlist entries as the Snapshot keeps them: a symbol, a symbol whose slug
\* starts like an entity kind, an entry without symbol, a symbol in lower case
WatchSymbolPool ==
    << [symbol |-> <<"AAPL">>, dataSource |-> <<"YAHOO">>],
       [symbol |-> <<"Limit", "-", "Low", "-", "AAPL">>, dataSource |-> <<"YAHOO">>],
       [dataSource |-> <<"YAHOO">>],
       [symbol |-> <<"aapl">>, dataSource |-> <<"YAHOO">>] >>

WatchSymbolLists == {SubSeq(WatchSymbolPool, 1, n) : n \in 0..MaxWatch}

\* the Snapshot of a cycle that went through: every non-excluded account has
\* the holdings list, the watchlist is as fetched
ExpectedSnapshot(accounts_list, holdings, watchlist) ==
    LET ids == {accounts_list[i]["id"] :
                  i \in {j \in DOMAIN accounts_list : ~accounts_list[j]["isExcluded"]}}
    IN  SuccessData([accounts |-> accounts_list],
                    Performance(<<>>),
                    [a \in ids |-> Performance(a)],
                    [a \in ids |-> holdings],
                    watchlist,
                    [p \in ProviderCodes |-> HealthRecord(p)])

ExpectedSnapshots ==
    {ExpectedSnapshot(l, h, w) :
        l \in AccountLists, h \in HoldingLists, w \in WatchSymbolLists}

InitExpected ==
    /\ cfg \in FlagSettings
    /\ data \in ExpectedSnapshots
    /\ registry = InstalledEntities
    /\ prune_report = NoReport
    /\ prior_report = NoReport
    /\ pc = "idle"
    /\ accounts_data = EmptyDict
    /\ global_performance = EmptyDict
    /\ account_performances = EmptyDict
    /\ holdings_by_account = EmptyDict
    /\ raw_items = <<>>
    /\ watchlist_items = <<>>
    /\ market_data_resp = EmptyDict
    /\ idx = 0
    /\ health_tasks = NoTasks
    /\ calls = NoCalls

NextExpected == Prune

SpecExpected == InitExpected /\ [][NextExpected]_vars

\* the ids of the non-excluded accounts of a Snapshot
IncludedAccountIds(snapshot) ==
    {snapshot.accounts["accounts"][i]["id"] :
        i \in {j \in DOMAIN snapshot.accounts["accounts"] :
                 ~snapshot.accounts["accounts"][j]["isExcluded"]}}

\* quantity > 0, read off the record
PositiveQuantity(h) == "quantity" \in DOMAIN h /\ h["quantity"] > 0

\* the three identifiers of a holding of an account
HoldingTriple(a, h) ==
    {HoldingId(k, a, slugify(SymbolOf(h)), ENTRY_ID) : k \in HoldingKinds}

\* the holdings of an account in a Snapshot, as a set of records
HoldingsIn(snapshot, a) ==
    IF a \in DOMAIN snapshot.account_holdings
    THEN Range(snapshot.account_holdings[a]) ELSE {}

\* C11: a holding whose quantity is zero, negative, null or missing has none of
\* its holding, limit-low and limit-high identifiers in the expected set
\* (unless a holding of the same account with quantity > 0 has the same
\* normalized symbol) and no entity under such an identifier outlives a
\* prune; a holding with quantity > 0 of a non-excluded account has all three
\* in the expected set when holdings display is on.
C11_OnlyActiveHoldingsExpected ==
    ServerOnline(data) =>
        LET expected == valid_unique_ids(data, cfg, ENTRY_ID)
            registered == {e.unique_id : e \in Registered(registry)}
        IN  \A a \in IncludedAccountIds(data) :
              LET held == HoldingsIn(data, a)
                  active == {slugify(SymbolOf(g)) : g \in {x \in held : PositiveQuantity(x)}}
              IN  \A h \in held :
                    /\ (PositiveQuantity(h) /\ cfg.show_holdings) =>
                            HoldingTriple(a, h) \subseteq expected
                    /\ (~PositiveQuantity(h) /\ slugify(SymbolOf(h)) \notin active) =>
                            /\ HoldingTriple(a, h) \cap expected = {}
                            /\ prune_report.outcome = "complete" =>
                                  HoldingTriple(a, h) \cap registered = {}

\* a prune has run against a Snapshot that holds, for account a1, an active
\* AAPL holding and an MSFT holding of negative quantity: the AAPL sensor is
\* still registered, the MSFT limit entity is gone
C11_Witness ==
    /\ prune_report.outcome = "complete"
    /\ cfg.show_holdings
    /\ <<"a1">> \in IncludedAccountIds(data)
    /\ Holding(<<"AAPL">>, 2) \in HoldingsIn(data, <<"a1">>)
    /\ Holding(<<"MSFT">>, -1) \in HoldingsIn(data, <<"a1">>)
    /\ \E e \in registry : e.entity_id = "sensor.a1_aapl"
    /\ \A e \in registry : e.entity_id # "number.a1_msft_low"

\* a logical entity: its kind, and the account id and normalized symbol where
\* the kind has them (<<>> where it has none)
LogicalEntity(shape, kind, account, symbol) ==
    [shape |-> shape, kind |-> kind, account |-> account, symbol |-> symbol]

\* the logical entities the reconciler expects for a Snapshot
LogicalEntities(snapshot, flags) ==
    LET accounts == IncludedAccountIds(snapshot)
    IN  {LogicalEntity("instance", k, <<>>, <<>>) :
            k \in (IF flags.show_totals THEN GlobalKinds ELSE {})
                  \cup {<<"server", "_", "status">>, <<"prune", "_", "button">>}}
        \cup {LogicalEntity("provider", <<"provider">>, <<>>, Lower(p)) : p \in ProviderCodes}
        \cup {LogicalEntity("account", k, a, <<>>) :
                k \in (IF flags.show_accounts THEN AccountKinds ELSE {}), a \in accounts}
        \cup UNION { {LogicalEntity("holding", k, a, slugify(SymbolOf(h))) :
                        k \in (IF flags.show_holdings THEN HoldingKinds ELSE {}),
                        h \in {g \in HoldingsIn(snapshot, a) : PositiveQuantity(g)}} :
                     a \in accounts }
        \cup {LogicalEntity("watchlist", k, <<>>, slugify(SymbolOf(item))) :
                k \in (IF flags.show_watchlist THEN WatchlistKinds ELSE {}),
                item \in Range(snapshot.watchlist)}

\* the identifier the scheme gives a logical entity
IdOf(e, entry_id) ==
    CASE e.shape = "instance" -> InstanceId(e.kind, entry_id)
      [] e.shape = "account" -> PartId(e.kind, e.account, entry_id)
      [] e.shape = "holding" -> HoldingId(e.kind, e.account, e.symbol, entry_id)
      [] OTHER -> PartId(e.kind, e.symbol, entry_id)

\* C13: the expected set is made of the identifiers of the Snapshot's logical
\* entities; two logical entities that differ in kind, account id or
\* normalized symbol have different identifiers, and the expected sets of two
\* integration instances share no identifier.
C13_IdentifiersCollisionFree ==
    ServerOnline(data) =>
        LET entities == LogicalEntities(data, cfg)
        IN  /\ valid_unique_ids(data, cfg, ENTRY_ID) = {IdOf(e, ENTRY_ID) : e \in entities}
            /\ \A e1, e2 \in entities :
                  e1 # e2 => IdOf(e1, ENTRY_ID) # IdOf(e2, ENTRY_ID)
            /\ valid_unique_ids(data, cfg, ENTRY_ID)
                  \cap valid_unique_ids(data, cfg, OTHER_ENTRY_ID) = {}

\* a watchlist symbol whose slug starts with the words of an entity kind
KindPrefixedSymbol(snapshot) ==
    \E item \in Range(snapshot.watchlist) :
        \E k \in {<<"limit", "_", "low">>, <<"limit", "_", "high">>} :
            /\ Len(slugify(SymbolOf(item))) > Len(k)
            /\ SubSeq(slugify(SymbolOf(item)), 1, Len(k)) = k

\* C13 for the Snapshots without such a watchlist symbol.
C13_WithoutKindPrefixedSymbols ==
    (ServerOnline(data) /\ ~KindPrefixedSymbol(data)) => C13_IdentifiersCollisionFree

(***************************************************************************)
(* SpecEnrich: one watchlist entry at its market-data call, the remote     *)
(* answering with every price history of a bounded length.                 *)
(***************************************************************************)
MaxHistory == 7

\* the prices a point may carry; a point may also carry none (null)
PricePool == <<100, 120, 0, -50>>

\* the point of day `day`: price PricePool[c], or no price when c = 0
HistoryPoint(day, c) ==
    IF c = 0 THEN [date |-> day] ELSE PricePoint(day, PricePool[c])

\* the choices of a price for each point of a history of n points
PriceChoices(n) == [1..n -> 0..Len(PricePool)]

\* a market-data response with an ascending history: the point at position i
\* is the point of day i, with the price chosen for it
HistoryResponse(c) ==
    [marketData |-> [i \in DOMAIN c |-> HistoryPoint(i, c[i])],
     assetProfile |-> [currency |-> "USD", assetClass |-> "EQUITY"]]

\* the cycle is at line 145, for the only entry of its watchlist: the call
\* get_market_data has returned the response in market_data_resp
InitEnrich ==
    /\ cfg = AllFlagsOn
    /\ data = NoData
    /\ registry = InstalledEntities
    /\ prune_report = NoReport
    /\ prior_report = NoReport
    /\ pc = "get_market_data"
    /\ accounts_data = [accounts |-> <<>>]
    /\ global_performance = Performance(<<>>)
    /\ account_performances = EmptyDict
    /\ holdings_by_account = EmptyDict
    /\ raw_items = SubSeq(WatchPool, 1, 1)
    /\ watchlist_items = <<>>
    /\ \E n \in 0..MaxHistory : \E c \in PriceChoices(n) :
            market_data_resp = HistoryResponse(c)
    /\ idx = 1
    /\ health_tasks = NoTasks
    /\ calls = [NoCalls EXCEPT !.accounts = "ok", !.global = "ok", !.watchlist = "ok"]

\* lines 146-187 for the response received
EnrichReceived ==
    /\ pc = "get_market_data"
    /\ EnrichAndAppend(market_data_resp)
    /\ UNCHANGED <<cfg, data, registry, prune_report, prior_report, accounts_data,
                   global_performance, account_performances, holdings_by_account,
                   raw_items>>

NextEnrich == EnrichReceived

SpecEnrich == InitEnrich /\ [][NextEnrich]_vars

\* the entry has been enriched from the response in market_data_resp
Enriched ==
    /\ pc = "gather"
    /\ Len(watchlist_items) = 1
    /\ Has(calls.market_data, 1)
    /\ calls.market_data[1] = "ok"

\* the history of the response, and the entry as enrichment left it
TheHistory == market_data_resp["marketData"]
TheEntry == watchlist_items[1]

\* the price of the point at position i of the history: 0 when it has none
PriceAt(i) ==
    IF "marketPrice" \in DOMAIN TheHistory[i] THEN TheHistory[i]["marketPrice"] ELSE 0

LastPrice == PriceAt(Len(TheHistory))

\* the positions before the last whose price differs from the last price
Differing == {i \in 1..(Len(TheHistory) - 1) : PriceAt(i) # LastPrice}

Max(S) == CHOOSE x \in S : \A y \in S : y <= x

\* the most recent differing point is one of the 5 points before the last
PredecessorInLookback ==
    /\ Differing # {}
    /\ Max(Differing) >= Len(TheHistory) - 5

\* C14: when the most recent preceding point whose price differs from the last
\* price is within the lookback and its price prev is strictly positive, the
\* entry gets marketPrice = the last price, marketChange = last price - prev
\* and marketChangePercentage = (last price - prev) / prev * 100.
C14_ChangeAgainstDifferingPredecessor ==
    (Enriched /\ TheHistory # <<>> /\ PredecessorInLookback
        /\ PriceAt(Max(Differing)) > 0) =>
        LET prev == PriceAt(Max(Differing))
        IN  /\ Has(TheEntry, "marketPrice") /\ TheEntry["marketPrice"] = LastPrice
            /\ Has(TheEntry, "marketChange")
            /\ TheEntry["marketChange"] = LastPrice - prev
            /\ Has(TheEntry, "marketChangePercentage")
            /\ TheEntry["marketChangePercentage"].den > 0
            /\ TheEntry["marketChangePercentage"].num * prev =
                  (LastPrice - prev) * 100 * TheEntry["marketChangePercentage"].den

\* the history 100, 100, 100, 120 has given marketPrice 120, marketChange 20
\* and marketChangePercentage 20
C14_Witness ==
    /\ Enriched
    /\ TheHistory = <<PricePoint(1, 100), PricePoint(2, 100),
                      PricePoint(3, 100), PricePoint(4, 120)>>
    /\ TheEntry["marketPrice"] = 120
    /\ TheEntry["marketChange"] = 20
    /\ TheEntry["marketChangePercentage"] = [num |-> 20, den |-> 1]

ChangePresent == Has(TheEntry, "marketChange") \/ Has(TheEntry, "marketChangePercentage")

\* what C15 says of an enriched entry
NoZeroChange ==
    /\ Has(TheEntry, "marketChange") <=> Has(TheEntry, "marketChangePercentage")
    /\ Has(TheEntry, "marketChange") =>
          /\ TheEntry["marketChange"] # 0
          /\ PredecessorInLookback
          /\ PriceAt(Max(Differing)) > 0
    /\ (TheHistory = <<>> \/ ~PredecessorInLookback \/ PriceAt(Max(Differing)) <= 0) =>
          ~ChangePresent

\* C15: marketChange and marketChangePercentage are set only when a preceding
\* point within the lookback has a price that differs from the last price and
\* is strictly positive, so that marketChange is never 0; otherwise (a single
\* point, only repeated prices, a non-positive or missing predecessor price)
\* both are absent.
C15_NoZeroChange == Enriched => NoZeroChange

\* the last price is repeated by all of the 5 points before it, and the
\* history has a point before those
LongRun ==
    /\ Len(TheHistory) >= 7
    /\ \A i \in (Len(TheHistory) - 5)..(Len(TheHistory) - 1) : PriceAt(i) = LastPrice

\* C15 for the histories in which the walk does not use up its 5 steps with a
\* point left before them.
C15_WhenRunIsShort == (Enriched /\ TheHistory # <<>> /\ ~LongRun) => NoZeroChange

\* C16: for a non-empty history, marketPrice is the price of the last point (0
\* when it has none) and marketDate is the date of the last point, however
\* many points before it repeat its price.
C16_PriceAndDateOfLastPoint ==
    (Enriched /\ TheHistory # <<>>) =>
        /\ Has(TheEntry, "marketPrice")
        /\ TheEntry["marketPrice"] = LastPrice
        /\ Has(TheEntry, "marketDate")
        /\ TheEntry["marketDate"] = TheHistory[Len(TheHistory)]["date"]

\* C16 for the histories whose last price is not the price of the point before.
C16_WhenLastPriceIsNew ==
    (Enriched /\ TheHistory # <<>>
        /\ (Len(TheHistory) = 1 \/ PriceAt(Len(TheHistory) - 1) # LastPrice)) =>
        C16_PriceAndDateOfLastPoint

\* marketChange and marketChangePercentage as an entry carries them
ChangeOf(entry) ==
    [k \in (DOMAIN entry) \cap {"marketChange", "marketChangePercentage"} |-> entry[k]]

\* the positions of the at most 5 points immediately preceding the last
RecentPreceding ==
    {i \in 1..(Len(TheHistory) - 1) : i >= Len(TheHistory) - max_lookback}

\* the last point with the at most 5 points immediately preceding it
RecentPoints ==
    SubSeq(TheHistory, Len(TheHistory) - Cardinality(RecentPreceding), Len(TheHistory))

\* what C21 says of an enriched entry
LookbackBounded ==
    /\ ChangeOf(TheEntry) = ChangeOf(EnrichHistory(raw_items[1], RecentPoints))
    /\ Has(TheEntry, "marketChange") =>
          \E i \in RecentPreceding : TheEntry["marketChange"] = LastPrice - PriceAt(i)

\* C21: the lookback is bounded by 5 preceding points: marketChange and
\* marketChangePercentage are those the last point and the at most 5 points
\* immediately preceding it give by themselves, and an emitted marketChange is
\* the difference to one of those preceding points; no point further back is
\* the predecessor or changes the result.
C21_LookbackBounded == (Enriched /\ TheHistory # <<>>) => LookbackBounded

\* C21 for the histories in which the walk does not use up its 5 steps with a
\* point left before them.
C21_WhenRunIsShort == (Enriched /\ TheHistory # <<>> /\ ~LongRun) => LookbackBounded

(***************************************************************************)
(* SpecSwap: one scheduled refresh over a cached online Snapshot, with a   *)
(* prune possible at any point.                                            *)
(***************************************************************************)
\* the Snapshot an earlier cycle has cached
SwapSnapshots ==
    {OnlineSnapshot(l, TRUE, SubSeq(WatchPool, 1, 1)) :
        l \in {<<>>, <<Account(1, FALSE)>>}}

InitSwap ==
    /\ cfg = AllFlagsOn
    /\ data \in SwapSnapshots
    /\ registry = InstalledEntities
    /\ prune_report = NoReport
    /\ prior_report = NoReport
    /\ pc = "idle"
    /\ accounts_data = EmptyDict
    /\ global_performance = EmptyDict
    /\ account_performances = EmptyDict
    /\ holdings_by_account = EmptyDict
    /\ raw_items = <<>>
    /\ watchlist_items = <<>>
    /\ market_data_resp = EmptyDict
    /\ idx = 0
    /\ health_tasks = NoTasks
    /\ calls = NoCalls

\* the scheduler starts the next refresh cycle
RefreshAgain ==
    /\ pc = "idle"
    /\ ~calls.returned
    /\ BeginCycle

NextSwap ==
    \/ RefreshAgain
    \/ GetAccounts
    \/ GetGlobalPerformance
    \/ GetAccountPerformance
    \/ GetHoldings
    \/ GetWatchlist
    \/ GetMarketData
    \/ \E p \in ProviderCodes : ProviderHealth(p)
    \/ GatherReturns
    \/ GatherRaises
    \/ Prune

SpecSwap == InitSwap /\ [][NextSwap]_vars

\* C19: the cached Snapshot changes only in the step in which a cycle returns,
\* and then as a whole: to the all-defaults offline Snapshot or to the seven
\* fields of the cycle that returns; every step taken while a cycle is
\* suspended at a remote call, and every prune, leaves it as it was.
C19_SnapshotReplacedWhole ==
    [][ /\ data' # data =>
              /\ pc # "idle" /\ pc' = "idle"
              /\ ~calls.returned /\ calls'.returned
              /\ \/ data' = OfflineData
                 \/ data' = SuccessData(accounts_data', global_performance',
                                        account_performances', holdings_by_account',
                                        watchlist_items',
                                        [p \in ProviderCodes |-> HealthRecord(p)])
        /\ (pc' # "idle" \/ PruneStep) => data' = data
      ]_vars

\* a cycle is suspended at the provider fan-out with an accounts response
\* other than the cached one, a prune has run meanwhile, and the cached
\* Snapshot is still the earlier one
C19_Witness ==
    /\ pc = "gather"
    /\ ~calls.returned
    /\ prune_report.outcome = "complete"
    /\ data \in SwapSnapshots
    /\ data.accounts # accounts_data
    /\ data.watchlist # watchlist_items

====
